---- MODULE Spec2Model ----
(***************************************************************************)
(* Model of backend/server.py: the Word Builder Game development server.   *)
(*                                                                         *)
(* The program is one script: it changes the working directory to the      *)
(* script's directory, binds a socketserver.TCPServer on PORT with         *)
(* CustomHTTPRequestHandler, prints a banner, tries to open the browser    *)
(* and runs serve_forever() until KeyboardInterrupt.  The handler derives  *)
(* from http.server.SimpleHTTPRequestHandler; the inherited methods are    *)
(* modelled by what CPython's http.server does, on an abstract wire        *)
(* (a sequence of header-block tokens plus a body token).                  *)
(***************************************************************************)
EXTENDS Integers, Sequences, FiniteSets, TLC

(***************************************************************************)
(* Program constant and the fixed vocabulary of the model.                 *)
(***************************************************************************)
PORT == 8000

\* Path(__file__).parent, and one other directory a caller may start in.
ScriptDir == "scriptdir"
OtherDir == "elsewhere"
Dirs == {ScriptDir, OtherDir}

\* Header-block tokens.  STATUS is the status line, CRLF the blank line that
\* terminates the header block.
STATUS == "STATUS"
CRLF == "CRLF"
AllowOrigin == "Access-Control-Allow-Origin: *"
AllowMethods == "Access-Control-Allow-Methods: GET, POST, OPTIONS"
AllowHeaders == "Access-Control-Allow-Headers: Content-Type"
CorsHeaders == {AllowOrigin, AllowMethods, AllowHeaders}

\* Body tokens.
NoBody == ""
ErrorPage == "error-page"
Listing == "directory-listing"

\* Lines the script prints.
BannerLines ==
  << "Word Builder Game Server", "Serving at", "Game URL",
     "Teacher Dashboard", "Press Ctrl+C to stop the server", "" >>
OpeningLine == "Opening game in your default browser..."
FallbackLine == "Manually open http://localhost:{PORT}/index.html in your browser"
FarewellLine == "Server stopped. Thanks for testing!"

(***************************************************************************)
(* The file system, per directory: what os.path.isdir, os.path.isfile,     *)
(* open() and os.listdir see.  kind: "file", "dir" or "absent"; ok: the    *)
(* file can be opened / the directory can be listed.  The two directories  *)
(* differ, so that serving from the wrong one is visible.                  *)
(***************************************************************************)
Names == {"", "index.html", "locked.html", "assets", "docs", "nope"}

Entry(kind, ok) == [kind |-> kind, ok |-> ok]

FS(dir, name) ==
  IF dir = ScriptDir
  THEN CASE name = ""                  -> Entry("dir", TRUE)
         [] name = "index.html"        -> Entry("file", TRUE)
         [] name = "locked.html"       -> Entry("file", FALSE)
         [] name = "assets"            -> Entry("dir", TRUE)
         [] name = "docs"              -> Entry("dir", FALSE)
         [] OTHER                      -> Entry("absent", FALSE)
  ELSE CASE name = ""                  -> Entry("dir", TRUE)
         [] name = "index.html"        -> Entry("file", TRUE)
         [] name = "nope"              -> Entry("file", TRUE)
         [] name = "assets"            -> Entry("dir", TRUE)
         [] name = "assets/index.html" -> Entry("file", TRUE)
         [] OTHER                      -> Entry("absent", FALSE)

\* os.path.join(path, "index.html") for a directory.
IndexName(name) == IF name = "" THEN "index.html" ELSE name \o "/index.html"

\* The bytes of a file: distinct for every (directory, name).
FileBytes(dir, name) == "bytes:" \o dir \o "/" \o name

(***************************************************************************)
(* Requests.  A request is its request line (method, number of words,      *)
(* version word, path) and what the model needs of the rest:               *)
(*   nwords  number of blank-separated words of the request line;          *)
(*           2 is the HTTP/0.9 simple form "GET /path"; with 1 word there  *)
(*           is no path, with 4 a stray word stands before the version;    *)
(*   version the last word when nwords >= 3 ("HTTP/x" is not a version);   *)
(*   name    the path without its leading and trailing "/";                *)
(*   slash   the path ends with "/";                                       *)
(*   ims     If-Modified-Since: absent, not older than the file ("fresh"), *)
(*           or older ("stale");                                           *)
(*   fault   "line": request line longer than 65536 bytes; "headers": the  *)
(*           header block is over http.client's limits.                    *)
(***************************************************************************)
Methods == {"GET", "HEAD", "POST", "OPTIONS"}
Versions == {"HTTP/0.9", "HTTP/1.0", "HTTP/1.1", "HTTP/2.0", "HTTP/x"}
NoVersion == "-"

Requests ==
  { r \in [method : Methods, nwords : 1..4, version : Versions \cup {NoVersion},
           name : Names, slash : BOOLEAN,
           ims : {"none", "fresh", "stale"}, fault : {"none", "line", "headers"}] :
      /\ (r.nwords >= 3) <=> (r.version # NoVersion)
      /\ (r.name = "") => r.slash
      \* one representative where the other fields are never looked at
      /\ (r.nwords = 1) => (r.name = "")
      /\ (r.nwords = 4) => (r.version = "HTTP/1.1")
      /\ (r.ims # "none") => (r.nwords = 3 /\ r.version = "HTTP/1.1" /\ r.fault = "none")
      /\ (r.fault # "none") =>
           (r.nwords = 3 /\ r.version = "HTTP/1.1" /\ r.name = "index.html" /\ ~r.slash)
      /\ (r.fault = "line") => (r.method = "GET") }

\* A request the library parses without an error response and answers with a
\* status line: a three-word request line with an HTTP/1.x version.
WellFormed(r) ==
  /\ r.nwords = 3
  /\ r.version \in {"HTTP/1.0", "HTTP/1.1"}
  /\ r.fault = "none"

(***************************************************************************)
(* The handler object while it answers one request.                        *)
(*   request_version, command: as parse_request leaves them;               *)
(*   buf:  _headers_buffer;  wire: what was written to wfile of the header *)
(*   block;  body: what was written after it;                              *)
(*   logged: the code passed to send_response (0: none);                   *)
(*   statusline: the code of the status line put in the buffer (0: none);  *)
(*   path, ims: self.path and the If-Modified-Since of self.headers;       *)
(*   resolved: translate_path was called;  directory: self.directory.      *)
(***************************************************************************)
NewHandler(directory) ==
  [request_version |-> "", command |-> "", buf |-> << >>, wire |-> << >>,
   body |-> NoBody, logged |-> 0, statusline |-> 0, resolved |-> FALSE,
   path |-> [name |-> "", slash |-> TRUE], ims |-> "none",
   directory |-> directory]

\* BaseHTTPRequestHandler.send_response_only
send_response_only(h, code) ==
  IF h.request_version # "HTTP/0.9"
  THEN [h EXCEPT !.buf = Append(@, STATUS), !.statusline = code]
  ELSE h

\* BaseHTTPRequestHandler.send_header
send_header(h, header) ==
  IF h.request_version # "HTTP/0.9"
  THEN [h EXCEPT !.buf = Append(@, header)]
  ELSE h

\* BaseHTTPRequestHandler.send_response: log, status line, Server, Date.
send_response(h, code) ==
  send_header(send_header(send_response_only([h EXCEPT !.logged = code], code),
                          "Server"), "Date")

\* BaseHTTPRequestHandler.end_headers (super().end_headers()): the blank line,
\* then flush_headers.
base_end_headers(h) ==
  IF h.request_version # "HTTP/0.9"
  THEN [h EXCEPT !.wire = @ \o Append(h.buf, CRLF), !.buf = << >>]
  ELSE h

\* end_headers with the Allow-Methods line left out.
end_headers_NoMethods(h) ==
  base_end_headers(send_header(send_header(h, AllowOrigin), AllowHeaders))

\* CustomHTTPRequestHandler.end_headers
end_headers(h) ==
  base_end_headers(
    send_header(send_header(send_header(h, AllowOrigin), AllowMethods), AllowHeaders))

\* BaseHTTPRequestHandler.send_error
send_error(h, code) ==
  LET h1 == send_header(send_response(h, code), "Connection: close")
      hasBody == code >= 200 /\ code \notin {204, 205, 304}
      h2 == IF hasBody
            THEN send_header(send_header(h1, "Content-Type"), "Content-Length")
            ELSE h1
      h3 == end_headers(h2)
  IN IF h.command # "HEAD" /\ hasBody THEN [h3 EXCEPT !.body = ErrorPage] ELSE h3

\* do_OPTIONS answering through send_error, which writes an error page.
do_OPTIONS_ErrorPage(h) ==
  send_error(h, 200)

\* CustomHTTPRequestHandler.do_OPTIONS
do_OPTIONS(h) ==
  end_headers(send_response(h, 200))

\* BaseHTTPRequestHandler.parse_request: the handler after parsing, and whether
\* parsing succeeded (on failure the error response has been sent).
\* The version word is examined first; request_version is assigned only after
\* it passed, so the two version errors are sent while request_version is
\* still default_request_version, "HTTP/0.9".
parse_request(h0, req) ==
  LET h == [h0 EXCEPT !.command = "", !.request_version = "HTTP/0.9"]
      hv == IF req.nwords >= 3 THEN [h EXCEPT !.request_version = req.version] ELSE h
      hp == [hv EXCEPT !.command = req.method,
                       !.path = [name |-> req.name, slash |-> req.slash]]
  IN IF req.nwords >= 3 /\ req.version = "HTTP/x"
       THEN [ok |-> FALSE, h |-> send_error(h, 400)]
     ELSE IF req.nwords >= 3 /\ req.version = "HTTP/2.0"
       THEN [ok |-> FALSE, h |-> send_error(h, 505)]
     ELSE IF ~(2 <= req.nwords /\ req.nwords <= 3)
       THEN [ok |-> FALSE, h |-> send_error(hv, 400)]
     ELSE IF req.nwords = 2 /\ req.method # "GET"
       THEN [ok |-> FALSE, h |-> send_error(hv, 400)]
     ELSE IF req.fault = "headers"
       THEN [ok |-> FALSE, h |-> send_error(hp, 431)]
     ELSE [ok |-> TRUE, h |-> [hp EXCEPT !.ims = req.ims]]

\* SimpleHTTPRequestHandler.translate_path: the path is joined to
\* self.directory, an explicit trailing slash is kept.
translate_path(h) ==
  [dir |-> h.directory, name |-> h.path.name, slash |-> h.path.slash]

\* SimpleHTTPRequestHandler.list_directory
list_directory(h, p) ==
  IF ~FS(p.dir, p.name).ok
  THEN [h |-> send_error(h, 404), f |-> NoBody]
  ELSE [h |-> end_headers(send_header(send_header(send_response(h, 200),
                                                  "Content-type"), "Content-Length")),
        f |-> Listing]

\* SimpleHTTPRequestHandler.send_head: the handler after the header block, and
\* the file object to copy (NoBody: None was returned).
send_head(h0) ==
  LET h == [h0 EXCEPT !.resolved = TRUE]
      p == translate_path(h)
      e == FS(p.dir, p.name)
      isdir == e.kind = "dir"
      hasIndex == FS(p.dir, IndexName(p.name)).kind = "file"
      \* after the directory branch: the name opened, and whether path ends in "/"
      viaIndex == isdir /\ hasIndex
      target == IF viaIndex THEN IndexName(p.name) ELSE p.name
      endsSlash == ~viaIndex /\ p.slash
      openable == FS(p.dir, target).kind = "file" /\ FS(p.dir, target).ok
  IN IF isdir /\ ~h.path.slash
       THEN [h |-> end_headers(send_header(send_header(send_response(h, 301),
                                           "Location"), "Content-Length")),
             f |-> NoBody]
     ELSE IF isdir /\ ~hasIndex
       THEN list_directory(h, p)
     ELSE IF endsSlash
       THEN [h |-> send_error(h, 404), f |-> NoBody]
     ELSE IF ~openable
       THEN [h |-> send_error(h, 404), f |-> NoBody]
     ELSE IF h.ims = "fresh"
       THEN [h |-> end_headers(send_response(h, 304)), f |-> NoBody]
     ELSE [h |-> end_headers(send_header(send_header(send_header(
                      send_response(h, 200),
                      "Content-type"), "Content-Length"), "Last-Modified")),
           f |-> FileBytes(p.dir, target)]

\* do_GET that never copies the file.
do_GET_NoCopy(h) ==
  send_head(h).h

\* SimpleHTTPRequestHandler.do_GET: send_head, then copyfile.
do_GET(h) ==
  LET r == send_head(h)
  IN IF r.f # NoBody THEN [r.h EXCEPT !.body = r.f] ELSE r.h

\* SimpleHTTPRequestHandler.do_HEAD: send_head, the file is closed uncopied.
do_HEAD(h) ==
  send_head(h).h

\* Dispatch of a class in which do_POST is an alias of do_GET.
handle_one_request_PostAsGet(req, directory) ==
  LET h0 == NewHandler(directory)
      pr == parse_request(h0, req)
  IN IF req.fault = "line" THEN send_error(h0, 414)
     ELSE IF ~pr.ok THEN pr.h
     ELSE IF pr.h.command \in {"GET", "POST"} THEN do_GET(pr.h)
     ELSE IF pr.h.command = "HEAD" THEN do_HEAD(pr.h)
     ELSE IF pr.h.command = "OPTIONS" THEN do_OPTIONS(pr.h)
     ELSE send_error(pr.h, 501)

\* BaseHTTPRequestHandler.handle_one_request with the methods the class has:
\* do_GET and do_HEAD inherited, do_OPTIONS defined, no do_POST.
handle_one_request(req, directory) ==
  LET h0 == NewHandler(directory)
      pr == parse_request(h0, req)
  IN IF req.fault = "line" THEN send_error(h0, 414)
     ELSE IF ~pr.ok THEN pr.h
     ELSE IF pr.h.command = "GET" THEN do_GET(pr.h)
     ELSE IF pr.h.command = "HEAD" THEN do_HEAD(pr.h)
     ELSE IF pr.h.command = "OPTIONS" THEN do_OPTIONS(pr.h)
     ELSE send_error(pr.h, 501)

(***************************************************************************)
(* The process.                                                            *)
(*   pc        position in the script: "start" (before os.chdir), "bind"   *)
(*             (before TCPServer(...)), "banner" (printing the banner),    *)
(*             "browser" (before webbrowser.open), "serve" (inside         *)
(*             httpd.serve_forever()), "done" (process gone);              *)
(*   callerCwd the working directory the process was started in;           *)
(*   cwd       the process's working directory;                            *)
(*   listener  "unbound", "bound", "released" (server_close after a bind), *)
(*             "failed" (bind raised; the socket was closed unbound);      *)
(*   out       the lines printed to standard output;                       *)
(*   exit      "running", "clean" (the script ran to its end), "unhandled" *)
(*             (an exception left the script);                             *)
(*   interrupts number of KeyboardInterrupts raised in the process;        *)
(*   browser   outcome of webbrowser.open: "none" (not attempted), "True", *)
(*             "False" (no browser could be launched), "raised" (an        *)
(*             exception), "interrupted" (KeyboardInterrupt inside it);    *)
(*   answered, lastReq, lastResp: the last request handled by the accept   *)
(*             loop and the handler that answered it.                      *)
(***************************************************************************)
VARIABLES pc, callerCwd, cwd, listener, out, exit, interrupts, browser,
          answered, lastReq, lastResp

vars == << pc, callerCwd, cwd, listener, out, exit, interrupts, browser,
           answered, lastReq, lastResp >>

NoRequest ==
  [method |-> "", nwords |-> 0, version |-> NoVersion, name |-> "", slash |-> TRUE,
   ims |-> "none", fault |-> "none"]

Init ==
  /\ pc = "start"
  /\ callerCwd \in Dirs
  /\ cwd = callerCwd
  /\ listener = "unbound"
  /\ out = << >>
  /\ exit = "running"
  /\ interrupts = 0
  /\ browser = "none"
  /\ answered = FALSE
  /\ lastReq = NoRequest
  /\ lastResp = NewHandler("")

\* The script without its os.chdir: the working directory stays the caller's.
Chdir_Skipped ==
  /\ pc = "start"
  /\ pc' = "bind"
  /\ UNCHANGED << callerCwd, cwd, listener, out, exit, interrupts, browser,
                  answered, lastReq, lastResp >>

\* os.chdir(Path(__file__).parent)
Chdir ==
  /\ pc = "start"
  /\ cwd' = ScriptDir
  /\ pc' = "bind"
  /\ UNCHANGED << callerCwd, listener, out, exit, interrupts, browser,
                  answered, lastReq, lastResp >>

\* socketserver.TCPServer(("", PORT), CustomHTTPRequestHandler) binds and
\* listens; the with block is entered.
BindOk ==
  /\ pc = "bind"
  /\ listener' = "bound"
  /\ pc' = "banner"
  /\ UNCHANGED << callerCwd, cwd, out, exit, interrupts, browser,
                  answered, lastReq, lastResp >>

\* A bind failure that is caught, the script going on to the banner.
BindFail_Caught ==
  /\ pc = "bind"
  /\ listener' = "failed"
  /\ pc' = "banner"
  /\ UNCHANGED << callerCwd, cwd, out, exit, interrupts, browser,
                  answered, lastReq, lastResp >>

\* server_bind raises OSError (PORT in use): TCPServer.__init__ closes the
\* socket and re-raises; nothing in the script catches it.
BindFail ==
  /\ pc = "bind"
  /\ listener' = "failed"
  /\ exit' = "unhandled"
  /\ pc' = "done"
  /\ UNCHANGED << callerCwd, cwd, out, interrupts, browser,
                  answered, lastReq, lastResp >>

\* KeyboardInterrupt before the with block: nothing catches it.
InterruptStartup ==
  /\ pc \in {"start", "bind"}
  /\ interrupts' = interrupts + 1
  /\ exit' = "unhandled"
  /\ pc' = "done"
  /\ UNCHANGED << callerCwd, cwd, listener, out, browser,
                  answered, lastReq, lastResp >>

\* One print(...) of the banner; after the sixth the script goes on to the
\* browser launch.
PrintBanner ==
  /\ pc = "banner"
  /\ out' = Append(out, BannerLines[Len(out) + 1])
  /\ pc' = IF Len(out') = Len(BannerLines) THEN "browser" ELSE "banner"
  /\ UNCHANGED << callerCwd, cwd, listener, exit, interrupts, browser,
                  answered, lastReq, lastResp >>

\* A print of the banner raises (closed or non-UTF-8 stdout): the exception
\* leaves the with block, whose __exit__ calls server_close().
BannerFail ==
  /\ pc = "banner"
  /\ listener' = "released"
  /\ exit' = "unhandled"
  /\ pc' = "done"
  /\ UNCHANGED << callerCwd, cwd, out, interrupts, browser,
                  answered, lastReq, lastResp >>

\* KeyboardInterrupt while the banner is printed: not inside any try.
InterruptBanner ==
  /\ pc = "banner"
  /\ interrupts' = interrupts + 1
  /\ listener' = "released"
  /\ exit' = "unhandled"
  /\ pc' = "done"
  /\ UNCHANGED << callerCwd, cwd, out, browser, answered, lastReq, lastResp >>

\* try: webbrowser.open(...); print(opening)  except: print(fallback).
\* webbrowser.open returns True, returns False when no browser could be
\* launched, or raises; its return value is not looked at.
OpenBrowser ==
  /\ pc = "browser"
  /\ \E outcome \in {"True", "False", "raised"} :
       /\ browser' = outcome
       /\ out' = Append(out, IF outcome = "raised" THEN FallbackLine ELSE OpeningLine)
  /\ pc' = "serve"
  /\ UNCHANGED << callerCwd, cwd, listener, exit, interrupts,
                  answered, lastReq, lastResp >>

\* KeyboardInterrupt raised inside webbrowser.open: the bare except clause
\* catches BaseException, so the script prints the fallback and goes on.
InterruptBrowser ==
  /\ pc = "browser"
  /\ interrupts' = interrupts + 1
  /\ browser' = "interrupted"
  /\ out' = Append(out, FallbackLine)
  /\ pc' = "serve"
  /\ UNCHANGED << callerCwd, cwd, listener, exit, answered, lastReq, lastResp >>

\* serve_forever accepts one connection and handles its request; the handler
\* is constructed with directory = os.getcwd().  The loop goes on.
ServeRequest ==
  /\ pc = "serve"
  /\ \E req \in Requests :
       /\ lastReq' = req
       /\ lastResp' = handle_one_request(req, cwd)
  /\ answered' = TRUE
  /\ UNCHANGED << pc, callerCwd, cwd, listener, out, exit, interrupts, browser >>

\* serve_forever() outside any try: the interrupt is not caught.
InterruptServe_Uncaught ==
  /\ pc = "serve"
  /\ interrupts' = interrupts + 1
  /\ listener' = "released"
  /\ exit' = "unhandled"
  /\ pc' = "done"
  /\ UNCHANGED << callerCwd, cwd, out, browser, answered, lastReq, lastResp >>

\* KeyboardInterrupt inside serve_forever: caught by except KeyboardInterrupt,
\* the farewell is printed, the with block ends (server_close) and the script
\* runs off its end.
InterruptServe ==
  /\ pc = "serve"
  /\ interrupts' = interrupts + 1
  /\ out' = Append(out, FarewellLine)
  /\ listener' = "released"
  /\ exit' = "clean"
  /\ pc' = "done"
  /\ UNCHANGED << callerCwd, cwd, browser, answered, lastReq, lastResp >>

\* The server constructed without a with block: nothing closes it.
ServeFail_NoClose ==
  /\ pc = "serve"
  /\ exit' = "unhandled"
  /\ pc' = "done"
  /\ UNCHANGED << callerCwd, cwd, listener, out, interrupts, browser,
                  answered, lastReq, lastResp >>

\* Any other exception leaving serve_forever (OSError from the selector,
\* a BaseException from a handler): not caught; the with block's __exit__
\* still calls server_close().
ServeFail ==
  /\ pc = "serve"
  /\ listener' = "released"
  /\ exit' = "unhandled"
  /\ pc' = "done"
  /\ UNCHANGED << callerCwd, cwd, out, interrupts, browser,
                  answered, lastReq, lastResp >>

Next ==
  \/ Chdir
  \/ BindOk
  \/ BindFail
  \/ InterruptStartup
  \/ PrintBanner
  \/ BannerFail
  \/ InterruptBanner
  \/ OpenBrowser
  \/ InterruptBrowser
  \/ ServeRequest
  \/ InterruptServe
  \/ ServeFail

Spec == Init /\ [][Next]_vars

TypeOK ==
  /\ pc \in {"start", "bind", "banner", "browser", "serve", "done"}
  /\ callerCwd \in Dirs
  /\ cwd \in Dirs
  /\ listener \in {"unbound", "bound", "released", "failed"}
  /\ exit \in {"running", "clean", "unhandled"}
  /\ interrupts \in 0..2
  /\ browser \in {"none", "True", "False", "raised", "interrupted"}
  /\ answered \in BOOLEAN
  /\ lastReq \in Requests \cup {NoRequest}

(***************************************************************************)
(* Properties.                                                             *)
(***************************************************************************)
Count(seq, x) == Cardinality({i \in DOMAIN seq : seq[i] = x})

\* header c stands exactly once in the header block w, before the blank line
\* that terminates it.
OnceBeforeEnd(w, c) ==
  /\ Count(w, c) = 1
  /\ Count(w, CRLF) = 1
  /\ \E i, j \in DOMAIN w : w[i] = c /\ w[j] = CRLF /\ i < j

CorsComplete(w) == \A c \in CorsHeaders : OnceBeforeEnd(w, c)

\* The request line ends with an HTTP/1.x version word, or is too long to be
\* looked at: the cases in which the response is sent with a header block.
SentWithHeaders(r) ==
  \/ r.fault = "line"
  \/ r.nwords >= 3 /\ r.version \in {"HTTP/1.0", "HTTP/1.1"}

\* The path names a regular file that can be read / names nothing at all,
\* under the script's directory.
NamesFile(r) ==
  /\ ~r.slash
  /\ FS(ScriptDir, r.name).kind = "file"
  /\ FS(ScriptDir, r.name).ok

NamesNothing(r) == FS(ScriptDir, r.name).kind = "absent"

\* C1 as stated: every response the server produces, error responses
\* included, carries each of the three CORS headers exactly once, written
\* before the header block is terminated.
C1_Original ==
  answered => CorsComplete(lastResp.wire)

\* C1, amended: every response to a request whose request line carries an
\* HTTP/1.x version word (and the 414 response to an over-long request line),
\* error responses included, carries each of the three CORS headers exactly
\* once, before the blank line that ends the header block, and nothing is
\* written to the header block after that line; a response sent in HTTP/0.9
\* mode has no header block at all.
C1_CorsOnEveryHeaderBlock ==
  answered =>
    IF SentWithHeaders(lastReq)
    THEN /\ CorsComplete(lastResp.wire)
         /\ lastResp.wire[Len(lastResp.wire)] = CRLF
         /\ lastResp.wire[1] = STATUS
         /\ lastResp.buf = << >>
    ELSE lastResp.wire = << >>

\* C1 witness: a not-found error response and its CORS headers.
C1_Witness ==
  /\ answered
  /\ lastResp.statusline = 404
  /\ lastResp.body = ErrorPage
  /\ CorsComplete(lastResp.wire)

\* C2 as stated: any request with method OPTIONS, whatever its path, is
\* answered with status 200 and an empty body, without file resolution.
C2_Original ==
  (answered /\ lastReq.method = "OPTIONS") =>
    /\ lastResp.statusline = 200
    /\ lastResp.body = NoBody
    /\ ~lastResp.resolved

\* C2, amended: any well-formed HTTP/1.x request with method OPTIONS, whatever
\* its path, is answered with status 200 and an empty body, without file
\* resolution.
C2_OptionsShortCircuit ==
  (answered /\ lastReq.method = "OPTIONS" /\ WellFormed(lastReq)) =>
    /\ lastResp.statusline = 200
    /\ lastResp.logged = 200
    /\ lastResp.body = NoBody
    /\ ~lastResp.resolved

\* C2 witness: OPTIONS for a path that names nothing, answered 200.
C2_Witness ==
  /\ answered
  /\ lastReq.method = "OPTIONS"
  /\ WellFormed(lastReq)
  /\ NamesNothing(lastReq)
  /\ lastResp.statusline = 200

\* C3 as stated (read for well-formed HTTP/1.x requests): a GET is answered
\* 200 with the file's bytes when the path names an existing file, and with a
\* client-error status when it names none.
C3_Original ==
  (answered /\ lastReq.method = "GET" /\ WellFormed(lastReq)) =>
    /\ NamesFile(lastReq) =>
         /\ lastResp.statusline = 200
         /\ lastResp.body = FileBytes(ScriptDir, lastReq.name)
    /\ NamesNothing(lastReq) => lastResp.statusline \in 400..499

\* C3, amended: a well-formed HTTP/1.x GET request carrying no
\* If-Modified-Since header (or one older than the file) is answered 200 with
\* the file's bytes when the path names a readable file under the script's
\* directory, and 404, never 200, when the path names nothing there.
C3_GetFileOrNotFound ==
  (answered /\ lastReq.method = "GET" /\ WellFormed(lastReq)
            /\ lastReq.ims # "fresh") =>
    /\ NamesFile(lastReq) =>
         /\ lastResp.statusline = 200
         /\ lastResp.body = FileBytes(ScriptDir, lastReq.name)
    /\ NamesNothing(lastReq) =>
         /\ lastResp.statusline = 404
         /\ lastResp.body = ErrorPage

\* C3 witness: the index page served with its bytes.
C3_Witness ==
  /\ answered
  /\ lastReq.method = "GET"
  /\ WellFormed(lastReq)
  /\ lastReq.ims = "stale"
  /\ lastResp.statusline = 200
  /\ lastResp.body = FileBytes(ScriptDir, "index.html")

\* C4: an interrupt while the accept loop runs ends the loop, prints the
\* farewell and ends the process without an unhandled exception; the accept
\* loop is left with a clean exit in no other way.
C4_InterruptStopsServer ==
  [][ /\ (pc = "serve" /\ interrupts' = interrupts + 1) =>
           /\ pc' = "done"
           /\ exit' = "clean"
           /\ out' = Append(out, FarewellLine)
      /\ (pc = "serve" /\ pc' # "serve" /\ exit' # "unhandled") =>
           interrupts' = interrupts + 1 ]_vars

\* C4 witness: the server answered a request, was interrupted and is gone.
C4_Witness ==
  /\ pc = "done"
  /\ exit = "clean"
  /\ answered
  /\ out[Len(out)] = FarewellLine

\* C5: the working directory is the script's directory from before the bind
\* on and never changes afterwards; whatever directory the process was
\* started in, every request is resolved against the script's directory.
C5_ServesScriptDir ==
  /\ [](/\ (pc = "bind" \/ listener # "unbound") => cwd = ScriptDir
        /\ answered => /\ lastResp.directory = ScriptDir
                       /\ lastResp = handle_one_request(lastReq, ScriptDir))
  /\ [][pc # "start" => cwd' = cwd]_vars

\* C5 witness: started elsewhere, the script directory's index page is served.
C5_Witness ==
  /\ callerCwd = OtherDir
  /\ answered
  /\ lastReq.name = "index.html"
  /\ lastResp.body = FileBytes(ScriptDir, "index.html")

\* C6 as stated: when the browser cannot be opened, the fallback hint is
\* printed instead of the 'opening browser' line and the server goes on to
\* the accept loop; when it can, the 'opening browser' line is printed and
\* the fallback hint is not; the banner comes before, the accept loop after.
C6_Original ==
  /\ browser \in {"False", "raised"} =>
       /\ Count(out, FallbackLine) = 1
       /\ Count(out, OpeningLine) = 0
  /\ browser = "True" =>
       /\ Count(out, OpeningLine) = 1
       /\ Count(out, FallbackLine) = 0
  /\ browser # "none" =>
       /\ Len(out) > Len(BannerLines)
       /\ SubSeq(out, 1, Len(BannerLines)) = BannerLines
       /\ pc \in {"serve", "done"}
  /\ pc = "browser" => exit = "running"
  /\ (pc = "serve" \/ answered) => browser # "none"

\* C7 as stated (read for well-formed HTTP/1.x requests): GET, HEAD and POST
\* all go through static-file resolution, which returns the file or a
\* redirect / not-modified / not-found / forbidden response.
C7_Original ==
  (answered /\ WellFormed(lastReq) /\ lastReq.method \in {"GET", "HEAD", "POST"}) =>
    /\ lastResp.resolved
    /\ lastResp.statusline \in {200, 301, 304, 403, 404}

\* C7, amended: well-formed HTTP/1.x requests with method GET or HEAD go
\* through static-file resolution (answered 200, 301, 304 or 404, a HEAD
\* without body); a POST is not resolved at all: the class has no do_POST and
\* the request is answered 501 with an error page.
C7_GetHeadResolvePostRejected ==
  (answered /\ WellFormed(lastReq)) =>
    /\ lastReq.method \in {"GET", "HEAD"} =>
         /\ lastResp.resolved
         /\ lastResp.statusline \in {200, 301, 304, 404}
    /\ lastReq.method = "HEAD" => lastResp.body = NoBody
    /\ (lastReq.method = "GET" /\ lastResp.statusline = 404) =>
         lastResp.body = ErrorPage
    /\ lastReq.method = "POST" =>
         /\ ~lastResp.resolved
         /\ lastResp.statusline = 501
         /\ lastResp.body = ErrorPage

\* C7 witness: a POST to an existing file, rejected unresolved.
C7_Witness ==
  /\ answered
  /\ WellFormed(lastReq)
  /\ lastReq.method = "POST"
  /\ NamesFile(lastReq)
  /\ lastResp.statusline = 501

\* C8: after a bind failure the process is gone with an unhandled exception,
\* nothing was printed, no browser launch was attempted, no request was
\* served, and the working directory is already the script's.
C8_BindFailureFatal ==
  listener = "failed" =>
    /\ pc = "done"
    /\ exit = "unhandled"
    /\ out = << >>
    /\ browser = "none"
    /\ ~answered
    /\ cwd = ScriptDir

\* C8 witness: the bind failed in a process started elsewhere.
C8_Witness ==
  /\ listener = "failed"
  /\ callerCwd = OtherDir

\* C9: once bound, the listener is released on every way out of the serving
\* block; in no terminated state is it still held.
C9_ListenerReleased ==
  /\ [](pc = "done" => listener # "bound")
  /\ [][(listener = "bound" /\ pc' = "done") => listener' = "released"]_vars

\* C9 witness: an uncaught exception left the accept loop after a request.
C9_Witness ==
  /\ pc = "done"
  /\ exit = "unhandled"
  /\ answered
  /\ listener = "released"

\* C10 as stated: an interrupt delivered at any point after the listener is
\* bound ends the process; it is never absorbed with the server going on.
C10_Original ==
  [][(listener = "bound" /\ interrupts' = interrupts + 1) =>
       (pc' = "done" /\ exit' # "running")]_vars

====
